---- MODULE Spec2Model ----
(***************************************************************************)
(* R2Northstar-Websocket (src/websocket/src/lib.rs): a plugin that keeps   *)
(* named websocket client connections in two process-wide maps,            *)
(* STREAM_MAP (name -> write half) and LAST_MESSAGE (name -> received text *)
(* messages), each behind a std::sync::Mutex, with one tokio task per      *)
(* connection reading frames.                                              *)
(*                                                                         *)
(* Host threads call the exported functions; every access to shared state  *)
(* is one step. A std Mutex is a holder plus a poison flag: a panic while  *)
(* a guard is alive poisons the mutex, and lock().unwrap() on a poisoned   *)
(* mutex panics. A panic in an exported function never returns to the      *)
(* host: the thread ends in "panicked".                                    *)
(***************************************************************************)
EXTENDS Naturals, Sequences, FiniteSets

\* ------------------------------------------------------------------ bounds

\* successful handshakes (transports created) in one run
MaxTransports == 2
\* text frames received in one run, over all transports
MaxFrames == 2
\* pieces a header string of the codec specification is built from
MaxPieces == 5

\* ------------------------------------------------------------- input sets

Names == {"a", "b"}

\* The thread of the Server VM, on which the host calls the exported
\* functions, and a second host thread, idle in the sequential specification.
Threads == {"vm", "aux"}

Transports == 1..MaxTransports

\* strings are sequences of one-character strings
Sep == <<"|", "#", "!", "#", "|">>

\* http::header::HeaderName accepts a non-empty token; HeaderValue accepts
\* visible ASCII, space and tab.
NameChars == {"a", "|", "#", "!"}
ValueChars == NameChars \cup {" "}

UrlOk == <<"w", "s", ":", "/", "/", "h">>
UrlBad == <<" ">>

HdrPair == <<"a">> \o Sep \o <<"a">>
HdrOdd == <<"a">> \o Sep \o <<"a", " ">> \o Sep \o <<" ">>
HdrBadName == <<" ">> \o Sep \o <<"a">>
\* the (url, headers) arguments the host passes to a connect
ConnectInputs == {<<UrlOk, HdrOdd>>, <<UrlBad, HdrPair>>, <<UrlOk, HdrBadName>>}

\* ---------------------------------------------------------------- helpers

Min(x, y) == IF x <= y THEN x ELSE y

Restrict(f, S) == [x \in S |-> f[x]]

\* HashMap::new()
EmptyMap == [x \in {} |-> 0]

\* mutant of Insert: an entry the key already has is kept
InsertIfAbsent(f, k, v) ==
    [x \in (DOMAIN f) \cup {k} |-> IF x \in DOMAIN f THEN f[x] ELSE v]

\* HashMap::insert
Insert(f, k, v) == [x \in (DOMAIN f) \cup {k} |-> IF x = k THEN v ELSE f[x]]

\* ----------------------------------------------------------- header codec

MatchesAt(s, i, pat) ==
    /\ i + Len(pat) - 1 <= Len(s)
    /\ \A j \in 1..Len(pat) : s[i + j - 1] = pat[j]

RECURSIVE SplitFrom(_, _, _, _)
SplitFrom(s, pat, cur, i) ==
    IF i > Len(s) THEN <<cur>>
    ELSE IF MatchesAt(s, i, pat)
         THEN <<cur>> \o SplitFrom(s, pat, <<>>, i + Len(pat))
         ELSE SplitFrom(s, pat, Append(cur, s[i]), i + 1)

\* headers.split("|#!#|").collect()
Split(s, pat) == SplitFrom(s, pat, <<>>, 1)

\* iter().step_by(2)
StepBy2(q) == [i \in 1..((Len(q) + 1) \div 2) |-> q[2 * i - 1]]

\* iter().skip(1)
Skip1(q) == SubSeq(q, 2, Len(q))

\* a.zip(b)
Zip(p, q) == [i \in 1..Min(Len(p), Len(q)) |-> <<p[i], q[i]>>]

\* mutant of HeaderPairs: the step_by(2) calls are missing
HeaderPairsSliding(tokens) == Zip(tokens, Skip1(tokens))

\* header.iter().step_by(2).zip(header.iter().skip(1).step_by(2))
HeaderPairs(tokens) == Zip(StepBy2(tokens), StepBy2(Skip1(tokens)))

\* HeaderName::from_str(header)
ValidHeaderName(tok) ==
    /\ Len(tok) > 0
    /\ \A i \in 1..Len(tok) : tok[i] \in NameChars

\* HeaderValue::from_str(value)
ValidHeaderValue(tok) == \A i \in 1..Len(tok) : tok[i] \in ValueChars

\* url_string.into_client_request()
UrlParses(u) == u = UrlOk

\* whether the request build of connect_to_server gets past every unwrap
RequestBuilds(u, h) ==
    /\ UrlParses(u)
    /\ \A i \in 1..Len(HeaderPairs(Split(h, Sep))) :
          /\ ValidHeaderName(HeaderPairs(Split(h, Sep))[i][1])
          /\ ValidHeaderValue(HeaderPairs(Split(h, Sep))[i][2])

\* ------------------------------------------------------------------ state

VARIABLES
    streamMap,    \* STREAM_MAP: name -> transport whose write half it holds
    lastMessage,  \* LAST_MESSAGE: name -> Vec<String>
    mapHolder,    \* thread holding the STREAM_MAP guard, or "none"
    mapPoisoned,  \* STREAM_MAP mutex poisoned
    lastPoisoned, \* LAST_MESSAGE mutex poisoned
    sinkHolder,   \* per transport: thread holding the write-half mutex
    pc,           \* per thread: position in the exported function
    call,         \* per thread: the call in progress or last made
    loc,          \* per thread: local variables of the call
    ret,          \* per thread: value returned by the last call
    snap,         \* per thread: shared state when the call was made
    nextTr,       \* transports created so far
    trName,       \* per transport: the name it was connected under
    closeCalled,  \* per transport: close() has run on its write half
    rl,           \* per transport: position of its read loop task
    rlLocal,      \* per transport: the cloned Vec the read loop pushes to
    received,     \* per transport: text frames received so far
    hdrPc,        \* header codec specification: position
    hdrIn,        \* header codec specification: the header string
    hdrTokens,    \* header codec specification: the split tokens
    hdrOut        \* header codec specification: the pairs iterated

sharedVars == <<streamMap, lastMessage, mapHolder, mapPoisoned, lastPoisoned,
                sinkHolder>>
threadVars == <<pc, call, loc, ret, snap>>
taskVars == <<nextTr, trName, closeCalled, rl, rlLocal, received>>
hdrVars == <<hdrPc, hdrIn, hdrTokens, hdrOut>>
vars == <<sharedVars, threadVars, taskVars, hdrVars>>

NoCall == [kind |-> "none", name |-> "", url |-> <<>>, headers |-> <<>>,
           keepAlive |-> FALSE]

NoLoc == [key |-> "", retTo |-> "", tr |-> 0, prior |-> 0, found |-> FALSE,
          attempted |-> FALSE, sendFailed |-> FALSE, closeOk |-> FALSE]

NoRet == [tag |-> "none", ok |-> FALSE, msgs |-> <<>>, names |-> {}]

\* read loops that have been spawned
Spawned == {tr \in Transports : rl[tr] # "none"}

Snapshot == [map |-> streamMap, bufKeys |-> DOMAIN lastMessage,
             spawned |-> Spawned]

InitPlugin ==
    /\ streamMap = EmptyMap
    /\ lastMessage = EmptyMap
    /\ mapHolder = "none"
    /\ mapPoisoned = FALSE
    /\ lastPoisoned = FALSE
    /\ sinkHolder = [tr \in Transports |-> "none"]
    /\ pc = [t \in Threads |-> "idle"]
    /\ call = [t \in Threads |-> NoCall]
    /\ loc = [t \in Threads |-> NoLoc]
    /\ ret = [t \in Threads |-> NoRet]
    /\ snap = [t \in Threads |->
                 [map |-> EmptyMap, bufKeys |-> {}, spawned |-> {}]]
    /\ nextTr = 0
    /\ trName = [tr \in Transports |-> ""]
    /\ closeCalled = [tr \in Transports |-> FALSE]
    /\ rl = [tr \in Transports |-> "none"]
    /\ rlLocal = [tr \in Transports |-> <<>>]
    /\ received = [tr \in Transports |-> 0]

\* the plugin as loaded; the header codec specification is switched off
Init ==
    /\ InitPlugin
    /\ hdrPc = "off"
    /\ hdrIn = <<>>
    /\ hdrTokens = <<>>
    /\ hdrOut = <<>>

\* ------------------------------------------------- host-thread bookkeeping

\* the locals of a call c; retTo is where disconnect_from_server returns to
NewLoc(c, retTo) == [NoLoc EXCEPT !.key = c.name, !.retTo = retTo]

\* thread t enters an exported function with call c
Called(t, c) ==
    /\ pc[t] = "idle"
    /\ call' = [call EXCEPT ![t] = c]
    /\ snap' = [snap EXCEPT ![t] = Snapshot]

\* the exported function is at position p with locals l, nothing returned yet
At(t, p, l) ==
    /\ pc' = [pc EXCEPT ![t] = p]
    /\ loc' = [loc EXCEPT ![t] = l]
    /\ ret' = [ret EXCEPT ![t] = NoRet]

\* the exported function returns r to the host
Return(t, r) ==
    /\ pc' = [pc EXCEPT ![t] = "idle"]
    /\ ret' = [ret EXCEPT ![t] = r]

RetBool(b) == [NoRet EXCEPT !.tag = "bool", !.ok = b]
RetUnit == [NoRet EXCEPT !.tag = "unit"]
RetMsgs(q) == [NoRet EXCEPT !.tag = "msgs", !.msgs = q]
RetNames(S) == [NoRet EXCEPT !.tag = "names", !.names = S]

\* no guard is taken, dropped or poisoned
LocksUnchanged == UNCHANGED <<mapHolder, mapPoisoned, lastPoisoned, sinkHolder>>

\* unwrap() fails on thread t: the panic unwinds, dropping every guard the
\* thread holds; a guard dropped while panicking poisons its mutex.
\* inMap / inLast: the panic is raised under a STREAM_MAP / LAST_MESSAGE
\* guard taken in this very step.
Panic(t, inMap, inLast) ==
    /\ pc' = [pc EXCEPT ![t] = "panicked"]
    /\ mapPoisoned' = (mapPoisoned \/ inMap \/ mapHolder = t)
    /\ lastPoisoned' = (lastPoisoned \/ inLast)
    /\ mapHolder' = IF mapHolder = t THEN "none" ELSE mapHolder
    /\ sinkHolder' = [tr \in Transports |->
                        IF sinkHolder[tr] = t THEN "none" ELSE sinkHolder[tr]]

\* ------------------------------------------------ disconnect_from_server

\* mutant of DisconnectBegin: close() is started without waiting for the
\* STREAM_MAP guard and the write-half guard
DisconnectBeginUnlocked(t, l) ==
    IF l.key \notin DOMAIN streamMap
    THEN /\ Panic(t, TRUE, FALSE)
         /\ loc' = [loc EXCEPT ![t] = l]
    ELSE /\ pc' = [pc EXCEPT ![t] = "d_close"]
         /\ mapHolder' = t
         /\ sinkHolder' = [sinkHolder EXCEPT ![streamMap[l.key]] = t]
         /\ loc' = [loc EXCEPT ![t] = [l EXCEPT !.tr = streamMap[l.key]]]
         /\ UNCHANGED <<mapPoisoned, lastPoisoned>>

\* STREAM_MAP.lock().unwrap().get(name).unwrap().write.lock().unwrap()
\* .close() is started with locals l; both guards live until the match ends.
DisconnectBegin(t, l) ==
    /\ mapHolder = "none"
    /\ IF mapPoisoned
       THEN /\ Panic(t, FALSE, FALSE)
            /\ loc' = [loc EXCEPT ![t] = l]
       ELSE IF l.key \notin DOMAIN streamMap
       THEN /\ Panic(t, TRUE, FALSE)
            /\ loc' = [loc EXCEPT ![t] = l]
       ELSE /\ sinkHolder[streamMap[l.key]] = "none"
            /\ pc' = [pc EXCEPT ![t] = "d_close"]
            /\ mapHolder' = t
            /\ sinkHolder' = [sinkHolder EXCEPT ![streamMap[l.key]] = t]
            /\ loc' = [loc EXCEPT ![t] = [l EXCEPT !.tr = streamMap[l.key]]]
            /\ UNCHANGED <<mapPoisoned, lastPoisoned>>

\* sq_disconnect_from_server(socket_name), up to the await of close()
SqDisconnectFromServer(t) ==
    /\ \E n \in Names :
          LET c == [NoCall EXCEPT !.kind = "disconnect", !.name = n]
          IN  /\ Called(t, c)
              /\ DisconnectBegin(t, NewLoc(c, "d_ret"))
    /\ ret' = [ret EXCEPT ![t] = NoRet]
    /\ UNCHANGED <<streamMap, lastMessage, taskVars, hdrVars>>

\* disconnect_from_server called from sq_write_message or
\* sq_connect_to_server, up to the await of close()
DisconnectLock(t) ==
    /\ pc[t] = "d_lock"
    /\ DisconnectBegin(t, loc[t])
    /\ UNCHANGED <<streamMap, lastMessage, call, ret, snap, taskVars, hdrVars>>

\* disconnect_from_server called where the caller already holds the
\* STREAM_MAP guard (the loop of Drop): std::sync::Mutex::lock on a mutex
\* the thread holds never returns; it deadlocks or panics.
DisconnectRelock(t) ==
    /\ pc[t] = "d_lock"
    /\ mapHolder = t
    /\ \E outcome \in {"deadlock", "panic"} :
          IF outcome = "deadlock"
          THEN /\ pc' = [pc EXCEPT ![t] = "deadlocked"]
               /\ LocksUnchanged
          ELSE Panic(t, FALSE, FALSE)
    /\ UNCHANGED <<streamMap, lastMessage, call, loc, ret, snap, taskVars,
                   hdrVars>>

\* mutant of DisconnectClose: an Err of close() is escalated, the function
\* returns without removing the entry
DisconnectCloseEscalates(t) ==
    /\ pc[t] = "d_close"
    /\ \E ok \in BOOLEAN :
          /\ loc' = [loc EXCEPT ![t].closeOk = ok]
          /\ IF ok
             THEN /\ pc' = [pc EXCEPT ![t] = "d_remove"]
                  /\ UNCHANGED ret
             ELSE Return(t, RetUnit)
    /\ closeCalled' = [closeCalled EXCEPT ![loc[t].tr] = TRUE]
    /\ mapHolder' = "none"
    /\ sinkHolder' = [sinkHolder EXCEPT ![loc[t].tr] = "none"]
    /\ UNCHANGED <<streamMap, lastMessage, mapPoisoned, lastPoisoned, call,
                   snap, nextTr, trName, rl, rlLocal, received, hdrVars>>

\* close() completes with Ok or Err; either is only logged, and the guards
\* are dropped at the end of the match.
DisconnectClose(t) ==
    /\ pc[t] = "d_close"
    /\ \E ok \in BOOLEAN : loc' = [loc EXCEPT ![t].closeOk = ok]
    /\ closeCalled' = [closeCalled EXCEPT ![loc[t].tr] = TRUE]
    /\ mapHolder' = "none"
    /\ sinkHolder' = [sinkHolder EXCEPT ![loc[t].tr] = "none"]
    /\ pc' = [pc EXCEPT ![t] = "d_remove"]
    /\ UNCHANGED <<streamMap, lastMessage, mapPoisoned, lastPoisoned, call,
                   ret, snap, nextTr, trName, rl, rlLocal, received,
                   hdrVars>>

\* mutant of RemoveEntry: the entry is left in the map
RemoveNothing(m, k) == m

\* the map once disconnect_from_server has removed the entry of k
RemoveEntry(m, k) == Restrict(m, DOMAIN m \ {k})

\* connect_to_server up to the await of the handshake: the header split,
\* into_client_request().unwrap(), HeaderName/HeaderValue::from_str(..)
\* .unwrap() for every pair, then timeout(.., connect_async(request)).
ConnectBuild(t, c, l) ==
    IF RequestBuilds(c.url, c.headers)
    THEN /\ pc' = [pc EXCEPT ![t] = "c_handshake"]
         /\ loc' = [loc EXCEPT ![t] = [l EXCEPT !.attempted = TRUE]]
         /\ LocksUnchanged
    ELSE /\ Panic(t, FALSE, FALSE)
         /\ loc' = [loc EXCEPT ![t] = l]

\* mutant of DisconnectRemove: the buffer of the name is removed as well
DisconnectRemoveDropsBuffer(t) ==
    /\ pc[t] = "d_remove"
    /\ mapHolder = "none"
    /\ IF mapPoisoned
       THEN /\ Panic(t, FALSE, FALSE)
            /\ UNCHANGED <<streamMap, lastMessage, loc, ret>>
       ELSE /\ streamMap' = RemoveEntry(streamMap, loc[t].key)
            /\ lastMessage' = RemoveEntry(lastMessage, loc[t].key)
            /\ IF loc[t].retTo = "c_build"
               THEN /\ ConnectBuild(t, call[t], loc[t])
                    /\ UNCHANGED ret
               ELSE /\ Return(t, IF loc[t].retTo = "w_ret"
                                 THEN RetBool(FALSE) ELSE RetUnit)
                    /\ LocksUnchanged
                    /\ UNCHANGED loc
    /\ UNCHANGED <<call, snap, taskVars, hdrVars>>

\* STREAM_MAP.lock().unwrap().remove(socket_name), then back to the caller:
\* sq_connect_to_server goes on to build its request, sq_write_message and
\* sq_disconnect_from_server return
DisconnectRemove(t) ==
    /\ pc[t] = "d_remove"
    /\ mapHolder = "none"
    /\ IF mapPoisoned
       THEN /\ Panic(t, FALSE, FALSE)
            /\ UNCHANGED <<streamMap, loc, ret>>
       ELSE /\ streamMap' = RemoveEntry(streamMap, loc[t].key)
            /\ IF loc[t].retTo = "c_build"
               THEN /\ ConnectBuild(t, call[t], loc[t])
                    /\ UNCHANGED ret
               ELSE /\ Return(t, IF loc[t].retTo = "w_ret"
                                 THEN RetBool(FALSE) ELSE RetUnit)
                    /\ LocksUnchanged
                    /\ UNCHANGED loc
    /\ UNCHANGED <<lastMessage, call, snap, taskVars, hdrVars>>

\* ------------------------------------------------------ sq_write_message

\* sq_write_message(socket_name, message) up to the await of the send.
\* write_message: STREAM_MAP.lock().unwrap(), map_lock.get(socket_name);
\* with no container it returns false and sq_write_message goes on to
\* disconnect_from_server; with one it locks the write half and starts the
\* send, map_lock and write_mutex alive across the await.
SqWriteMessage(t) ==
    /\ mapHolder = "none"
    /\ \E n \in Names :
          LET c == [NoCall EXCEPT !.kind = "write", !.name = n]
              l == NewLoc(c, "w_ret")
          IN  /\ Called(t, c)
              /\ ret' = [ret EXCEPT ![t] = NoRet]
              /\ IF mapPoisoned
                 THEN /\ Panic(t, FALSE, FALSE)
                      /\ loc' = [loc EXCEPT ![t] = l]
                 ELSE IF n \notin DOMAIN streamMap
                 THEN /\ pc' = [pc EXCEPT ![t] = "d_lock"]
                      /\ loc' = [loc EXCEPT ![t] = l]
                      /\ LocksUnchanged
                 ELSE /\ sinkHolder[streamMap[n]] = "none"
                      /\ pc' = [pc EXCEPT ![t] = "w_send"]
                      /\ mapHolder' = t
                      /\ sinkHolder' = [sinkHolder EXCEPT ![streamMap[n]] = t]
                      /\ loc' = [loc EXCEPT ![t] =
                                   [l EXCEPT !.tr = streamMap[n],
                                             !.found = TRUE]]
                      /\ UNCHANGED <<mapPoisoned, lastPoisoned>>
    /\ UNCHANGED <<streamMap, lastMessage, taskVars, hdrVars>>

\* mutant of AfterWrite: a failed write is returned without the disconnect
AfterWriteNoDisconnect(t, b) ==
    /\ Return(t, RetBool(b))
    /\ loc' = [loc EXCEPT ![t].sendFailed = ~b]

\* what sq_write_message does once write_message has returned b
AfterWrite(t, b) ==
    IF b
    THEN /\ Return(t, RetBool(TRUE))
         /\ UNCHANGED loc
    ELSE /\ pc' = [pc EXCEPT ![t] = "d_lock"]
         /\ loc' = [loc EXCEPT ![t].sendFailed = TRUE]
         /\ UNCHANGED ret

\* write.send(Message::Text(..)).await completes with Ok or Err; the guards
\* are dropped as write_message returns.
WriteSend(t) ==
    /\ pc[t] = "w_send"
    /\ \E ok \in BOOLEAN : AfterWrite(t, ok)
    /\ mapHolder' = "none"
    /\ sinkHolder' = [sinkHolder EXCEPT ![loc[t].tr] = "none"]
    /\ UNCHANGED <<streamMap, lastMessage, mapPoisoned, lastPoisoned, call,
                   snap, taskVars, hdrVars>>

\* -------------------------------------------------- sq_connect_to_server

\* mutant of AfterCheck: keep_alive is not looked at
AfterCheckIgnoreKeepAlive(present, keepAlive) ==
    IF present THEN "disconnect" ELSE "connect"

\* mutant of AfterCheck: the existing socket is not disconnected first
AfterCheckNoDisconnect(present, keepAlive) ==
    IF present /\ keepAlive THEN "keep" ELSE "connect"

\* what sq_connect_to_server does when contains_key has answered `present`:
\* keep the existing socket, disconnect it first, or connect right away
AfterCheck(present, keepAlive) ==
    IF present
    THEN IF keepAlive THEN "keep" ELSE "disconnect"
    ELSE "connect"

\* sq_connect_to_server(socket_name, url, headers, connection_time_out,
\* keep_alive) up to its first await or its return.
\* STREAM_MAP.lock().unwrap().contains_key(&socket_name): the guard is a
\* temporary of the if condition and is dropped before the body runs.
SqConnectToServer(t) ==
    /\ mapHolder = "none"
    /\ \E n \in Names, in \in ConnectInputs, ka \in BOOLEAN :
          LET c == [kind |-> "connect", name |-> n, url |-> in[1],
                    headers |-> in[2], keepAlive |-> ka]
              present == n \in DOMAIN streamMap
              l == [NewLoc(c, "c_build") EXCEPT
                       !.found = present,
                       !.prior = IF present THEN streamMap[n] ELSE 0]
              todo == AfterCheck(present, ka)
          IN  /\ Called(t, c)
              /\ IF mapPoisoned
                 THEN /\ Panic(t, FALSE, FALSE)
                      /\ loc' = [loc EXCEPT ![t] = NewLoc(c, "c_build")]
                      /\ ret' = [ret EXCEPT ![t] = NoRet]
                 ELSE IF todo = "keep"
                 THEN /\ Return(t, RetBool(TRUE))
                      /\ loc' = [loc EXCEPT ![t] = l]
                      /\ LocksUnchanged
                 ELSE IF todo = "disconnect"
                 THEN /\ At(t, "d_lock", l)
                      /\ LocksUnchanged
                 ELSE /\ ConnectBuild(t, c, l)
                      /\ ret' = [ret EXCEPT ![t] = NoRet]
    /\ UNCHANGED <<streamMap, lastMessage, taskVars, hdrVars>>

\* the handshake ends: Ok(Ok(stream)), Ok(Err(e)) or Err(elapsed)
ConnectHandshake(t) ==
    /\ pc[t] = "c_handshake"
    /\ \E outcome \in {"ok", "error", "timeout"} :
          IF outcome = "ok"
          THEN /\ nextTr < MaxTransports
               /\ nextTr' = nextTr + 1
               /\ trName' = [trName EXCEPT ![nextTr + 1] = loc[t].key]
               /\ loc' = [loc EXCEPT ![t].tr = nextTr + 1]
               /\ pc' = [pc EXCEPT ![t] = "c_insert_map"]
               /\ UNCHANGED ret
          ELSE /\ Return(t, RetBool(FALSE))
               /\ UNCHANGED <<nextTr, trName, loc>>
    /\ UNCHANGED <<sharedVars, call, snap, closeCalled, rl, rlLocal, received,
                   hdrVars>>

\* STREAM_MAP.lock().unwrap().insert(socket_name, new_container)
ConnectInsertMap(t) ==
    /\ pc[t] = "c_insert_map"
    /\ mapHolder = "none"
    /\ IF mapPoisoned
       THEN /\ Panic(t, FALSE, FALSE)
            /\ UNCHANGED streamMap
       ELSE /\ streamMap' = Insert(streamMap, loc[t].key, loc[t].tr)
            /\ pc' = [pc EXCEPT ![t] = "c_insert_buf"]
            /\ LocksUnchanged
    /\ UNCHANGED <<lastMessage, call, loc, ret, snap, taskVars, hdrVars>>

\* LAST_MESSAGE.lock().unwrap().insert(socket_name, Vec::new()), then
\* tokio::spawn of the read loop, then can_connect = true
ConnectInsertBuf(t) ==
    /\ pc[t] = "c_insert_buf"
    /\ IF lastPoisoned
       THEN /\ Panic(t, FALSE, FALSE)
            /\ UNCHANGED <<lastMessage, rl, ret>>
       ELSE /\ lastMessage' = Insert(lastMessage, loc[t].key, <<>>)
            /\ rl' = [rl EXCEPT ![loc[t].tr] = "recv"]
            /\ Return(t, RetBool(TRUE))
            /\ LocksUnchanged
    /\ UNCHANGED <<streamMap, call, loc, snap, nextTr, trName, closeCalled,
                   rlLocal, received, hdrVars>>

\* ----------------------------------- get_last_messages, get_open_connections

\* get_last_messages(socket_name): one critical section of LAST_MESSAGE,
\* get(..).unwrap().to_vec() then get_mut(..).unwrap().clear()
GetLastMessages(t) ==
    /\ \E n \in Names :
          LET c == [NoCall EXCEPT !.kind = "read", !.name = n]
          IN  /\ Called(t, c)
              /\ loc' = [loc EXCEPT ![t] = NewLoc(c, "")]
              /\ IF lastPoisoned \/ n \notin DOMAIN lastMessage
                 THEN /\ Panic(t, FALSE, ~lastPoisoned)
                      /\ ret' = [ret EXCEPT ![t] = NoRet]
                      /\ UNCHANGED lastMessage
                 ELSE /\ Return(t, RetMsgs(lastMessage[n]))
                      /\ lastMessage' = [lastMessage EXCEPT ![n] = <<>>]
                      /\ LocksUnchanged
    /\ UNCHANGED <<streamMap, taskVars, hdrVars>>

\* get_open_connections():
\* STREAM_MAP.lock().unwrap().keys().cloned().collect()
GetOpenConnections(t) ==
    /\ mapHolder = "none"
    /\ LET c == [NoCall EXCEPT !.kind = "list"]
       IN  /\ Called(t, c)
           /\ loc' = [loc EXCEPT ![t] = NewLoc(c, "")]
    /\ IF mapPoisoned
       THEN /\ Panic(t, FALSE, FALSE)
            /\ ret' = [ret EXCEPT ![t] = NoRet]
       ELSE /\ Return(t, RetNames(DOMAIN streamMap))
            /\ LocksUnchanged
    /\ UNCHANGED <<streamMap, lastMessage, taskVars, hdrVars>>

\* ------------------------------------------- impl Drop for WebsocketPlugin

\* the host unloads the plugin: drop(&mut self), up to the first call of
\* disconnect_from_server.
\* for (key, _) in &*STREAM_MAP.lock().unwrap() { disconnect_from_server(key) }
\* The guard is a temporary of the iterator expression and lives for the
\* whole loop; the first key is whichever the HashMap yields first.
DropPlugin(t) ==
    /\ mapHolder = "none"
    /\ LET c == [NoCall EXCEPT !.kind = "drop"]
           l == NewLoc(c, "drop")
       IN  /\ Called(t, c)
           /\ ret' = [ret EXCEPT ![t] = NoRet]
           /\ IF mapPoisoned
              THEN /\ Panic(t, FALSE, FALSE)
                   /\ loc' = [loc EXCEPT ![t] = l]
              ELSE IF DOMAIN streamMap = {}
              THEN /\ pc' = [pc EXCEPT ![t] = "dropped"]
                   /\ loc' = [loc EXCEPT ![t] = l]
                   /\ LocksUnchanged
              ELSE /\ \E key \in DOMAIN streamMap :
                         loc' = [loc EXCEPT ![t] = [l EXCEPT !.key = key]]
                   /\ pc' = [pc EXCEPT ![t] = "d_lock"]
                   /\ mapHolder' = t
                   /\ UNCHANGED <<mapPoisoned, lastPoisoned, sinkHolder>>
    /\ UNCHANGED <<streamMap, lastMessage, taskVars, hdrVars>>

\* ---------------------------------------------------------- the read loop

RECURSIVE SumTo(_, _)
SumTo(f, n) == IF n = 0 THEN 0 ELSE f[n] + SumTo(f, n - 1)

\* text frames the read loops have received so far
TotalReceived == SumTo(received, MaxTransports)

\* the payload of the k-th text frame of transport tr
Payload(tr, k) == <<tr, k>>

\* the Vec pushed to by the read loop: a clone of the buffer plus the frame
Pushed(buf, s) == Append(buf, s)

\* the read loop is at the head of the while-let, in read_stream.next():
\* "recv", or "erred" when the iteration before was the Err arm
Receiving(tr) == rl[tr] \in {"recv", "erred"}

\* read_stream.next() yields a text frame; first critical section:
\* last_message_map.get(name).unwrap().clone(), then push on the clone.
ReadLoopText(tr) ==
    /\ Receiving(tr)
    /\ TotalReceived < MaxFrames
    /\ received' = [received EXCEPT ![tr] = received[tr] + 1]
    /\ IF lastPoisoned \/ trName[tr] \notin DOMAIN lastMessage
       THEN /\ rl' = [rl EXCEPT ![tr] = "panicked"]
            /\ lastPoisoned' = TRUE
            /\ UNCHANGED rlLocal
       ELSE /\ rl' = [rl EXCEPT ![tr] = "insert"]
            /\ rlLocal' = [rlLocal EXCEPT ![tr] =
                  Pushed(lastMessage[trName[tr]],
                         Payload(tr, received[tr] + 1))]
            /\ UNCHANGED lastPoisoned
    /\ UNCHANGED <<streamMap, lastMessage, mapHolder, mapPoisoned, sinkHolder,
                   threadVars, nextTr, trName, closeCalled,
                   hdrVars>>

\* second critical section: last_message_map.insert(name, lock)
ReadLoopInsert(tr) ==
    /\ rl[tr] = "insert"
    /\ IF lastPoisoned
       THEN /\ rl' = [rl EXCEPT ![tr] = "panicked"]
            /\ UNCHANGED lastMessage
       ELSE /\ rl' = [rl EXCEPT ![tr] = "recv"]
            /\ lastMessage' = Insert(lastMessage, trName[tr], rlLocal[tr])
    /\ rlLocal' = [rlLocal EXCEPT ![tr] = <<>>]
    /\ UNCHANGED <<streamMap, mapHolder, mapPoisoned, lastPoisoned,
                   sinkHolder, threadVars, nextTr, trName, closeCalled, received,
                   hdrVars>>

\* a binary, ping, pong or raw frame: logged only
ReadLoopLogOnly(tr) ==
    /\ Receiving(tr)
    /\ rl' = [rl EXCEPT ![tr] = "recv"]
    /\ UNCHANGED <<sharedVars, threadVars, nextTr, trName, closeCalled, rlLocal,
                   received, hdrVars>>

\* a close frame: break
ReadLoopClose(tr) ==
    /\ Receiving(tr)
    /\ rl' = [rl EXCEPT ![tr] = "done"]
    /\ UNCHANGED <<sharedVars, threadVars, nextTr, trName, closeCalled, rlLocal,
                   received, hdrVars>>

\* Err(_): logged only; the arm has no break, so the while-let goes round
\* and polls read_stream.next() again
ReadLoopErr(tr) ==
    /\ Receiving(tr)
    /\ rl' = [rl EXCEPT ![tr] = "erred"]
    /\ UNCHANGED <<sharedVars, threadVars, nextTr, trName, closeCalled, rlLocal,
                   received, hdrVars>>

\* read_stream.next() yields None (the stream has ended): the while-let ends
ReadLoopEnd(tr) ==
    /\ Receiving(tr)
    /\ rl' = [rl EXCEPT ![tr] = "done"]
    /\ UNCHANGED <<sharedVars, threadVars, nextTr, trName, closeCalled, rlLocal,
                   received, hdrVars>>

\* ---------------------------------------------------------- specification

ThreadStep(t) ==
    \/ SqConnectToServer(t)
    \/ ConnectHandshake(t)
    \/ ConnectInsertMap(t)
    \/ ConnectInsertBuf(t)
    \/ SqDisconnectFromServer(t)
    \/ DisconnectLock(t)
    \/ DisconnectRelock(t)
    \/ DisconnectClose(t)
    \/ DisconnectRemove(t)
    \/ SqWriteMessage(t)
    \/ WriteSend(t)
    \/ GetLastMessages(t)
    \/ GetOpenConnections(t)
    \/ DropPlugin(t)

TaskStep(tr) ==
    \/ ReadLoopText(tr)
    \/ ReadLoopInsert(tr)
    \/ ReadLoopLogOnly(tr)
    \/ ReadLoopClose(tr)
    \/ ReadLoopErr(tr)
    \/ ReadLoopEnd(tr)

\* the exported functions are registered for the Server VM alone: one host
\* thread calls them, while the runtime's workers run the read loops
Next ==
    \/ ThreadStep("vm")
    \/ \E tr \in Transports : TaskStep(tr)

Spec == Init /\ [][Next]_vars

\* ------------------------------------------------ concurrent specification

\* The exported functions called from two host threads at once. The first
\* thread sets connections up and then makes one more call of any kind,
\* the second makes one call; the calls are for one name and with a
\* well-formed request.
MayCall(t) ==
    \/ call[t] = NoCall
    \/ t = "vm" /\ call[t].kind = "connect" /\ ret[t] = RetBool(TRUE)

\* the call thread t makes in this step is for the contended name
ContendedCall(t) ==
    /\ call'[t].name = "a"
    /\ call'[t].kind = "connect" => RequestBuilds(call'[t].url, call'[t].headers)

ConcConnect(t) == MayCall(t) /\ SqConnectToServer(t) /\ ContendedCall(t)
ConcDisconnect(t) == MayCall(t) /\ SqDisconnectFromServer(t) /\ ContendedCall(t)
ConcWrite(t) == MayCall(t) /\ SqWriteMessage(t) /\ ContendedCall(t)
ConcRead(t) == MayCall(t) /\ GetLastMessages(t) /\ ContendedCall(t)
ConcList(t) == MayCall(t) /\ GetOpenConnections(t)

ConcThreadStep(t) ==
    \/ ConcConnect(t)
    \/ ConcDisconnect(t)
    \/ ConcWrite(t)
    \/ ConcRead(t)
    \/ ConcList(t)
    \/ ConnectHandshake(t)
    \/ ConnectInsertMap(t)
    \/ ConnectInsertBuf(t)
    \/ DisconnectLock(t)
    \/ DisconnectClose(t)
    \/ DisconnectRemove(t)
    \/ WriteSend(t)

\* the steps of a read loop that lock LAST_MESSAGE, and its end
ConcTaskStep(tr) ==
    \/ ReadLoopText(tr)
    \/ ReadLoopInsert(tr)
    \/ ReadLoopClose(tr)

NextConc ==
    \/ \E t \in Threads : ConcThreadStep(t)
    \/ \E tr \in Transports : ConcTaskStep(tr)

SpecConc == Init /\ [][NextConc]_vars

\* ------------------------------------------ header codec specification

\* header strings are built from these pieces: a header character, a
\* character no header name may hold, the separator, and parts of it
Pieces == {<<"a">>, <<" ">>, Sep, <<"|">>, <<"|", "#", "!", "#">>}

RECURSIVE Concat(_)
Concat(ps) == IF ps = <<>> THEN <<>> ELSE Head(ps) \o Concat(Tail(ps))

HeaderInputs ==
    {Concat(ps) : ps \in UNION {[1..k -> Pieces] : k \in 0..MaxPieces}}

InitHeader ==
    /\ InitPlugin
    /\ \E h \in HeaderInputs :
          /\ hdrPc = "in"
          /\ hdrIn = h
          /\ hdrTokens = <<>>
          /\ hdrOut = <<>>

\* let header: Vec<&str> = headers.split("|#!#|").collect()
HeaderSplit ==
    /\ hdrPc = "in"
    /\ hdrTokens' = Split(hdrIn, Sep)
    /\ hdrPc' = "split"
    /\ UNCHANGED <<sharedVars, threadVars, taskVars, hdrIn, hdrOut>>

\* the pairs the for loop iterates over
HeaderZip ==
    /\ hdrPc = "split"
    /\ hdrOut' = HeaderPairs(hdrTokens)
    /\ hdrPc' = "zipped"
    /\ UNCHANGED <<sharedVars, threadVars, taskVars, hdrIn,
                   hdrTokens>>

\* the body of the for loop: both from_str(..).unwrap() for every pair
HeaderApply ==
    /\ hdrPc = "zipped"
    /\ hdrPc' = IF \A i \in 1..Len(hdrOut) :
                      /\ ValidHeaderName(hdrOut[i][1])
                      /\ ValidHeaderValue(hdrOut[i][2])
                THEN "applied" ELSE "panicked"
    /\ UNCHANGED <<sharedVars, threadVars, taskVars, hdrIn,
                   hdrTokens, hdrOut>>

NextHeader == HeaderSplit \/ HeaderZip \/ HeaderApply

SpecHeader == InitHeader /\ [][NextHeader]_vars

\* ================================================================ claims

HostCalls == {"connect", "disconnect", "write", "read"}

\* frames lo+1 .. hi of transport tr, in receipt order
Frames(tr, lo, hi) == [i \in 1..(hi - lo) |-> Payload(tr, lo + i)]

\* tr is the only connection its name has ever had, and its read loop is
\* between two frames
OnlyConnection(tr) ==
    /\ rl[tr] \in {"recv", "erred", "done"}
    /\ \A o \in Transports \ {tr} : trName[o] # trName[tr]

\* thread t has returned messages from a get_last_messages of name n and
\* has made no call since
LastRead(t, n) ==
    /\ pc[t] = "idle"
    /\ call[t].kind = "read"
    /\ call[t].name = n
    /\ ret[t].tag = "msgs"

\* C1: FIFO exactly-once drain. For one connection, whenever its read loop
\* is between frames the buffer holds the latest frames received, in
\* receipt order and up to the last one received (none is lost); and what
\* the last get_last_messages returned is a run of frames in receipt order
\* that ends right before the buffer starts (none of it is in the buffer to
\* be returned a second time, and none between the two is skipped).
C1_FifoExactlyOnce ==
    \A tr \in Transports :
        OnlyConnection(tr) =>
            LET buf == lastMessage[trName[tr]]
                lo == received[tr] - Len(buf)
            IN  /\ Len(buf) <= received[tr]
                /\ buf = Frames(tr, lo, received[tr])
                /\ \A t \in Threads :
                      LastRead(t, trName[tr])
                      => \E k \in 0..lo : ret[t].msgs = Frames(tr, k, lo)

\* the name of the call of thread t was connected at no time before the call
NeverConnected(t) ==
    /\ call[t].name \notin DOMAIN snap[t].map
    /\ call[t].name \notin snap[t].bufKeys

\* C2: unknown-name safety. Disconnect, Write and ReadBuffered on a name
\* that was never connected do not panic; once returned, Write has returned
\* false and the Registry and the keys of the Buffer Store are as they were.
C2_UnknownNameSafe ==
    \A t \in Threads :
        (call[t].kind \in {"disconnect", "write", "read"} /\ NeverConnected(t))
        => /\ pc[t] # "panicked"
           /\ pc[t] = "idle" =>
                 /\ streamMap = snap[t].map
                 /\ DOMAIN lastMessage = snap[t].bufKeys
                 /\ call[t].kind = "write" => ret[t] = RetBool(FALSE)

\* C3: shutdown sweep. A teardown neither deadlocks nor panics, and when it
\* is over every connection that was in the Registry has been closed and
\* the Registry is empty.
C3_ShutdownSweep ==
    \A t \in Threads :
        call[t].kind = "drop"
        => /\ pc[t] \notin {"deadlocked", "panicked"}
           /\ pc[t] = "dropped" =>
                 /\ DOMAIN streamMap = {}
                 /\ \A n \in DOMAIN snap[t].map : closeCalled[snap[t].map[n]]

\* thread t takes this step, inside a call on name n
StepOfCallOn(t, n) ==
    /\ <<pc[t], call[t], loc[t], ret[t]>>' # <<pc[t], call[t], loc[t], ret[t]>>
    /\ call'[t].kind \in HostCalls
    /\ call'[t].name = n

\* the read loop of a connection of name n takes this step
StepOfReadLoopOn(n) ==
    \E tr \in Transports :
        /\ trName[tr] = n
        /\ <<rl[tr], received[tr]>>' # <<rl[tr], received[tr]>>

\* the Registry entry and the buffer of name n
EntryOf(m, n) == IF n \in DOMAIN m THEN <<m[n]>> ELSE <<>>

\* C4: cross-connection isolation. For distinct names A and B, B connected,
\* a step of an operation on A or of A's read loop leaves B's Registry entry
\* and B's buffer as they are, and leaves the two mutexes every operation on B
\* must lock unpoisoned, so that no later operation on B fails because of it.
C4_Isolation ==
    [][\A A \in Names : \A B \in DOMAIN streamMap \ {A} :
          ((\E t \in Threads : StepOfCallOn(t, A)) \/ StepOfReadLoopOn(A))
          => /\ EntryOf(streamMap', B) = EntryOf(streamMap, B)
             /\ EntryOf(lastMessage', B) = EntryOf(lastMessage, B)
             /\ mapPoisoned' = mapPoisoned
             /\ lastPoisoned' = lastPoisoned]_vars

\* C5: write failure cascades to disconnect. A Write that found a
\* Connection and whose send failed goes through the disconnect and
\* returns false, and once it has returned the name is no key of the
\* Registry.
C5_WriteFailureDisconnects ==
    \A t \in Threads :
        (call[t].kind = "write" /\ loc[t].found /\ loc[t].sendFailed)
        => /\ pc[t] \in {"d_lock", "d_close", "d_remove", "idle"}
           /\ pc[t] = "idle" =>
                 /\ ret[t] = RetBool(FALSE)
                 /\ call[t].name \notin DOMAIN streamMap

C5_Witness ==
    /\ pc["vm"] = "idle"
    /\ call["vm"].kind = "write"
    /\ loc["vm"].found
    /\ loc["vm"].sendFailed
    /\ ret["vm"] = RetBool(FALSE)
    /\ closeCalled[loc["vm"].tr]

\* a keepAlive connect of thread t to a name that is in the Registry
KeepAliveCall(t) ==
    /\ call[t].kind = "connect"
    /\ call[t].keepAlive
    /\ call[t].name \in DOMAIN snap[t].map

\* thread t makes a call in this step
CallStep(t) ==
    /\ pc[t] = "idle"
    /\ <<pc[t], call[t], loc[t], ret[t], snap[t]>>'
          # <<pc[t], call[t], loc[t], ret[t], snap[t]>>

\* C6: idempotent keep-alive. A Connect with keepAlive on a name that is in
\* the Registry returns true straight from the existence check, in the step
\* that makes the check: no handshake is attempted, the existing transport
\* is not closed, the Registry, the keys of the Buffer Store and the set of
\* read loops are as they were when the call was made, and the step leaves
\* the Registry, every buffer and every transport as they are.
C6_KeepAliveIdempotent ==
    /\ [](\A t \in Threads :
            KeepAliveCall(t)
            => /\ pc[t] = "idle"
               /\ ret[t] = RetBool(TRUE)
               /\ ~loc[t].attempted
               /\ streamMap = snap[t].map
               /\ ~closeCalled[streamMap[call[t].name]]
               /\ DOMAIN lastMessage = snap[t].bufKeys
               /\ Spawned = snap[t].spawned)
    /\ [][\A t \in Threads :
            (CallStep(t) /\ KeepAliveCall(t)')
            => /\ streamMap' = streamMap
               /\ lastMessage' = lastMessage
               /\ closeCalled' = closeCalled
               /\ nextTr' = nextTr]_vars

C6_Witness ==
    /\ KeepAliveCall("vm")
    /\ pc["vm"] = "idle"
    /\ ret["vm"] = RetBool(TRUE)
    /\ loc["vm"].found

\* a connect without keepAlive of thread t that found its name in the
\* Registry
ReplacingCall(t) ==
    /\ call[t].kind = "connect"
    /\ ~call[t].keepAlive
    /\ loc[t].found

\* C7: replace-on-reconnect ordering. When a Connect without keepAlive found
\* its name in the Registry, then from the moment the new handshake is
\* attempted the prior transport has been closed and the prior Registry
\* entry removed, whatever the outcome of the handshake; while the
\* handshake is outstanding the name is in no Registry entry at all.
C7_ReplaceBeforeHandshake ==
    \A t \in Threads :
        (ReplacingCall(t) /\ loc[t].attempted)
        => /\ closeCalled[loc[t].prior]
           /\ EntryOf(streamMap, call[t].name) # <<loc[t].prior>>
           /\ pc[t] = "c_handshake" => call[t].name \notin DOMAIN streamMap

C7_Witness ==
    /\ ReplacingCall("vm")
    /\ loc["vm"].attempted
    /\ pc["vm"] = "idle"
    /\ ret["vm"] = RetBool(FALSE)

\* a connect of thread t that has returned false
FailedConnect(t) ==
    /\ call[t].kind = "connect"
    /\ pc[t] = "idle"
    /\ ret[t] = RetBool(FALSE)

\* C8 as claimed: whenever a Connect returns false, the Registry, the keys
\* of the Buffer Store and the set of read loops are the same as when the
\* call was made.
C8_FailedConnectNoTrace ==
    \A t \in Threads :
        FailedConnect(t)
        => /\ streamMap = snap[t].map
           /\ DOMAIN lastMessage = snap[t].bufKeys
           /\ Spawned = snap[t].spawned

\* C8 as amended: whenever a Connect returns false, the keys of the Buffer
\* Store and the set of read loops are the same as when the call was made,
\* and so is the Registry, except that a Connect without keepAlive has
\* closed and removed the entry its name had; no entry for the name is
\* installed.
C8_FailedConnectAmended ==
    \A t \in Threads :
        FailedConnect(t)
        => /\ streamMap = Restrict(snap[t].map,
                                   DOMAIN snap[t].map \ {call[t].name})
           /\ (call[t].keepAlive \/ ~loc[t].found) => streamMap = snap[t].map
           /\ loc[t].found => closeCalled[loc[t].prior]
           /\ DOMAIN lastMessage = snap[t].bufKeys
           /\ Spawned = snap[t].spawned

C8_Witness ==
    /\ FailedConnect("vm")
    /\ loc["vm"].found
    /\ streamMap # snap["vm"].map

\* C9: connect build errors are a boolean failure. A Connect whose URL does
\* not parse or whose header string holds an invalid name or value does
\* not panic; when it returns it has returned false and has attempted no
\* handshake.
C9_BuildErrorReturnsFalse ==
    \A t \in Threads :
        (/\ call[t].kind = "connect"
         /\ ~RequestBuilds(call[t].url, call[t].headers)
         /\ ~KeepAliveCall(t))
        => /\ pc[t] # "panicked"
           /\ pc[t] = "idle" => ret[t] = RetBool(FALSE) /\ ~loc[t].attempted

\* C10: header pairing. The n tokens of the split yield exactly the pairs
\* (t0,t1), (t2,t3), ... in order, n div 2 of them; with n odd the last
\* token is in no pair, and it alone never fails the loop: the loop panics
\* only on an invalid name or value inside a pair.
C10_HeaderPairing ==
    hdrPc \in {"zipped", "applied", "panicked"} =>
        /\ Len(hdrOut) = Len(hdrTokens) \div 2
        /\ \A i \in 1..Len(hdrOut) :
              hdrOut[i] = <<hdrTokens[2 * i - 1], hdrTokens[2 * i]>>
        /\ hdrPc = "panicked" =>
              \E i \in 1..(Len(hdrTokens) \div 2) :
                  \/ ~ValidHeaderName(hdrTokens[2 * i - 1])
                  \/ ~ValidHeaderValue(hdrTokens[2 * i])

C10_Witness ==
    /\ hdrPc = "applied"
    /\ Len(hdrTokens) = 3
    /\ ~ValidHeaderName(hdrTokens[3])
    /\ Len(hdrOut) = 1

\* a disconnect of thread t for a name that was in the Registry
DisconnectOfConnected(t) ==
    /\ call[t].kind = "disconnect"
    /\ call[t].name \in DOMAIN snap[t].map

\* C11: Disconnect always removes. A Disconnect for a name in the Registry
\* goes through the close and the removal without panicking; once it has
\* returned it has returned unit, the transport the name had has been
\* closed and the name is no key of the Registry, whether close() gave Ok
\* or Err.
C11_DisconnectAlwaysRemoves ==
    \A t \in Threads :
        DisconnectOfConnected(t)
        => /\ pc[t] \in {"d_close", "d_remove", "idle"}
           /\ pc[t] = "idle" =>
                 /\ ret[t] = RetUnit
                 /\ closeCalled[snap[t].map[call[t].name]]
                 /\ call[t].name \notin DOMAIN streamMap

C11_Witness ==
    /\ DisconnectOfConnected("vm")
    /\ pc["vm"] = "idle"
    /\ ~loc["vm"].closeOk
    /\ ret["vm"] = RetUnit
    /\ call["vm"].name \notin DOMAIN streamMap

\* thread t takes this step inside a Disconnect or a Write
StepOfDisconnect(t) ==
    /\ <<pc[t], call[t], loc[t], ret[t]>>' # <<pc[t], call[t], loc[t], ret[t]>>
    /\ call'[t].kind \in {"disconnect", "write"}

\* thread t calls get_last_messages in this step, for a name that has a
\* buffer and no Registry entry
ReadOfDisconnected(t) ==
    /\ CallStep(t)
    /\ call'[t].kind = "read"
    /\ call'[t].name \in DOMAIN lastMessage \ DOMAIN streamMap

\* C12: buffers outlive Disconnect. No step of a Disconnect or of a Write
\* (with the disconnect a failed send implies) changes the Buffer Store,
\* neither its keys nor the contents of any buffer; and a ReadBuffered for
\* a name that has been disconnected returns the contents of its buffer, in
\* order, not a panic and not an empty result.
C12_BuffersOutliveDisconnect ==
    [][\A t \in Threads :
          /\ StepOfDisconnect(t) => lastMessage' = lastMessage
          /\ ReadOfDisconnected(t)
             => /\ pc'[t] = "idle"
                /\ ret'[t] = RetMsgs(lastMessage[call'[t].name])]_vars

C12_Witness ==
    /\ pc["vm"] = "idle"
    /\ call["vm"].kind = "read"
    /\ call["vm"].name \in snap["vm"].bufKeys \ DOMAIN snap["vm"].map
    /\ ret["vm"].tag = "msgs"
    /\ Len(ret["vm"].msgs) = 2

\* the read loop of transport tr takes this step
StepOfReadLoop(tr) ==
    /\ rl[tr] # "none"
    /\ <<rl[tr], rlLocal[tr], received[tr]>>'
          # <<rl[tr], rlLocal[tr], received[tr]>>

\* the Buffer Store once the last text frame of tr is appended to the
\* buffer of its name
Appended(tr) ==
    [lastMessage EXCEPT ![trName[tr]] =
        Append(@, Payload(tr, received[tr]))]

\* C13: read loop frame effect. A step of a read loop never changes the
\* Registry, and it leaves the Buffer Store as it is or appends the payload
\* of the text frame it received to the buffer of its own name; a step that
\* handles another frame, an error or the end of the stream leaves the
\* Buffer Store as it is.
C13_ReadLoopFrameEffect ==
    [][\A tr \in Transports :
          StepOfReadLoop(tr)
          => /\ streamMap' = streamMap
             /\ lastMessage' = lastMessage \/ lastMessage' = Appended(tr)
             /\ rl[tr] # "insert" => lastMessage' = lastMessage]_vars

\* C14: read loop termination. A read loop that has been through its Err
\* arm receives nothing more and appends nothing more: its next step, if
\* any, ends it.
C14_ErrorEndsReadLoop ==
    [][\A tr \in Transports :
          (rl[tr] = "erred" /\ rl'[tr] # "erred")
          => /\ rl'[tr] = "done"
             /\ received'[tr] = received[tr]
             /\ lastMessage' = lastMessage]_vars

\* a network operation started by thread t is outstanding: the handshake,
\* the send of a text frame or the close
NetworkOutstanding(t) == pc[t] \in {"c_handshake", "w_send", "d_close"}

\* C15: minimal lock scope. No thread holds the STREAM_MAP guard while a
\* network operation it started (handshake, send, close) is outstanding.
C15_MinimalLockScope ==
    \A t \in Threads : NetworkOutstanding(t) => mapHolder # t

\* thread t has a send or a close in progress on the outbound half of tr
OnOutboundHalf(t, tr) ==
    /\ pc[t] \in {"w_send", "d_close"}
    /\ loc[t].tr = tr

\* C16: serialized outbound half. With Write and Disconnect calls made
\* from two threads at once, no two threads have a send or a close in
\* progress on the same outbound half, and the thread that has one holds
\* the mutex of that half.
C16_SerializedOutboundHalf ==
    \A tr \in Transports : \A t \in Threads :
        OnOutboundHalf(t, tr)
        => /\ sinkHolder[tr] = t
           /\ \A u \in Threads \ {t} : ~OnOutboundHalf(u, tr)

C16_Witness ==
    /\ pc["vm"] = "d_close"
    /\ call["vm"].kind = "disconnect"
    /\ pc["aux"] = "d_lock"
    /\ call["aux"].kind = "write"
    /\ loc["aux"].sendFailed
    /\ loc["aux"].tr = loc["vm"].tr

\* thread t has returned true from a Connect without keepAlive that found
\* its name absent, and has made no call since
ConnectedAfresh(t) ==
    /\ pc[t] = "idle"
    /\ call[t].kind = "connect"
    /\ ~call[t].keepAlive
    /\ ~loc[t].found
    /\ ret[t] = RetBool(TRUE)

\* both threads have done so for the same name: each passed the existence
\* check before the other inserted
ConnectRace(t, u) ==
    /\ ConnectedAfresh(t)
    /\ ConnectedAfresh(u)
    /\ call[t].name = call[u].name

\* C17: accepted connect race. Every insert into the Registry overwrites
\* the entry the name has; so when two concurrent Connects without
\* keepAlive for one name have both passed the check, both completed the
\* handshake and both inserted, the Registry holds one of the two
\* transports for the name, and the other has never been closed and has
\* its read loop spawned.
C17_AcceptedConnectRace ==
    /\ [](\A t \in Threads : \A u \in Threads \ {t} :
            ConnectRace(t, u)
            => /\ loc[t].tr # loc[u].tr
               /\ call[t].name \in DOMAIN streamMap
               /\ streamMap[call[t].name] \in {loc[t].tr, loc[u].tr}
               /\ \A tr \in {loc[t].tr, loc[u].tr} :
                     /\ ~closeCalled[tr]
                     /\ rl[tr] # "none")
    /\ [][\A t \in Threads :
            (pc[t] = "c_insert_map" /\ pc'[t] = "c_insert_buf")
            => streamMap'[loc[t].key] = loc[t].tr]_vars

C17_Witness ==
    /\ ConnectRace("vm", "aux")
    /\ streamMap[call["vm"].name] = loc["aux"].tr
    /\ ~closeCalled[loc["vm"].tr]
    /\ rl[loc["vm"].tr] = "recv"

\* C18: Registry keys are a subset of Buffer Store keys. In every
\* reachable state, the intermediate states of Connect included, every
\* name with an entry in the Registry has an entry in the Buffer Store.
C18_RegistryWithinBufferStore ==
    DOMAIN streamMap \subseteq DOMAIN lastMessage

\* the call of thread t addressed a name that was in the Registry (for
\* ReadBuffered: in the Buffer Store) when the call took its first lock
AddressedKnown(t) ==
    /\ call[t].kind \in {"disconnect", "write"}
          => call[t].name \in DOMAIN snap[t].map
    /\ call[t].kind = "read" => call[t].name \in snap[t].bufKeys

\* C19: deadlock freedom. Network operations complete; as long as every
\* call addresses a name known when it began, whoever holds the Registry
\* lock or a write lock is at a network operation and so releases it, and
\* no thread or read loop ends in a state without a return (a wait that
\* never ends, or an unwinding panic): every call returns.
C19_DeadlockFreedom ==
    (\A u \in Threads : AddressedKnown(u))
    => /\ \A t \in Threads : pc[t] \notin {"deadlocked", "panicked"}
       /\ \A tr \in Transports : rl[tr] # "panicked"
       /\ mapHolder # "none" => pc[mapHolder] \in {"w_send", "d_close"}
       /\ \A tr \in Transports :
             sinkHolder[tr] # "none"
             => pc[sinkHolder[tr]] \in {"w_send", "d_close"}

\* thread t has returned true from a Connect that installed a transport for
\* a name that had been connected before, and the entry is still in place
Reconnected(t) ==
    /\ pc[t] = "idle"
    /\ call[t].kind = "connect"
    /\ ret[t] = RetBool(TRUE)
    /\ loc[t].attempted
    /\ call[t].name \in snap[t].bufKeys
    /\ call[t].name \in DOMAIN streamMap
    /\ streamMap[call[t].name] = loc[t].tr

\* C20: buffer provenance. After a Connect has installed a new transport
\* for a name that was connected before, the buffer of the name holds only
\* messages received over that transport.
C20_BufferProvenance ==
    \A t \in Threads :
        Reconnected(t)
        => \A i \in 1..Len(lastMessage[call[t].name]) :
              lastMessage[call[t].name][i][1] = loc[t].tr

====
